---------------------------- MODULE Spec2Model ----------------------------
(***************************************************************************)
(* Model of the v-permission directive (vue-permission-directive 2.0.0):   *)
(* the module-level configuration, the mounted hook with its validator and *)
(* evaluator, and the host operations that feed it (configure, writes to   *)
(* the reactive ref, rendering of a guarded element).                      *)
(*                                                                         *)
(* JavaScript values are records tagged by t: null, undefined, number,     *)
(* string, array (v is the sequence of items), object (the two properties  *)
(* the directive reads, an absent one being undefined) and ref (the Vue    *)
(* ref handed to configure; its .value is the variable refValue).          *)
(* A function of the source that may throw yields one of the outcomes      *)
(* "true", "false", "throw".                                               *)
(***************************************************************************)
EXTENDS Integers, Sequences, FiniteSets, TLC

(* ------------------------------ bounds -------------------------------- *)
MaxHeld == 2
MaxPerms == 2
MaxList == 2
MaxElements == 1

(* --------------------------- JavaScript values ------------------------ *)
Null == [t |-> "null"]
Undefined == [t |-> "undefined"]
Ref == [t |-> "ref"]
Num(n) == [t |-> "number", v |-> n]
Str(s) == [t |-> "string", v |-> s]
Arr(items) == [t |-> "array", v |-> items]
Obj(p, m) == [t |-> "object", permissions |-> p, mode |-> m]

Bool(b) == IF b THEN "true" ELSE "false"

TypeOf(x) ==
  CASE x.t \in {"null", "array", "object", "ref"} -> "object"
    [] OTHER -> x.t

IsArray(x) == x.t = "array"

\* ToBoolean: what !x and  x && ...  test
Truthy(x) ==
  CASE x.t \in {"null", "undefined"} -> FALSE
    [] x.t = "number" -> x.v # 0
    [] x.t = "string" -> x.v # ""
    [] OTHER -> TRUE

\* x.permissions / x.mode on a non-null x: absent on anything but an object
PropPermissions(x) == IF x.t = "object" THEN x.permissions ELSE Undefined
PropMode(x) == IF x.t = "object" THEN x.mode ELSE Undefined

\* the characters of the strings that occur as permission strings
Chars(s) ==
  CASE s = "" -> << >>
    [] s = "a" -> <<"a">>
    [] s = "b" -> <<"b">>
    [] s = "ab" -> <<"a", "b">>
    [] s = "1" -> <<"1">>
    [] s = "*" -> <<"*">>
    [] s = "(" -> <<"(">>

\* String(x) for the values a held array holds
JSString(x) == IF x.t = "number" THEN "1" ELSE x.v

\* String.prototype.startsWith / endsWith
StartsWith(u, p) ==
  LET cu == Chars(u)
      cp == Chars(p)
  IN  Len(cp) <= Len(cu) /\ SubSeq(cu, 1, Len(cp)) = cp

EndsWith(u, p) ==
  LET cu == Chars(u)
      cp == Chars(p)
  IN  Len(cp) <= Len(cu) /\ SubSeq(cu, Len(cu) - Len(cp) + 1, Len(cu)) = cp

\* new RegExp(pattern) throws a SyntaxError on these patterns; every other
\* pattern of the model is a literal without metacharacters
RegExpThrows(pattern) == pattern \in {"(", "*"}

\* regex.test(u) for a literal pattern: unanchored search
RegExpTest(pattern, u) ==
  LET cu == Chars(u)
      cp == Chars(pattern)
  IN  \E i \in 0..Len(cu) :
        i + Len(cp) <= Len(cu) /\ SubSeq(cu, i + 1, i + Len(cp)) = cp

\* Array.prototype.some over the outcomes of its callback, in index order:
\* the first callback that returns true or throws ends the iteration
RECURSIVE SomeFrom(_, _)
SomeFrom(outcomes, i) ==
  IF i > Len(outcomes) THEN "false"
  ELSE IF outcomes[i] = "false" THEN SomeFrom(outcomes, i + 1)
  ELSE outcomes[i]

Some(outcomes) == SomeFrom(outcomes, 1)

\* Array.prototype.includes (strict equality on primitives)
Includes(arr, x) == \E i \in 1..Len(arr) : arr[i] = x

(* ------------------- validatePermissionFormat (38-97) ------------------ *)
validModes ==
  {Str("and"), Str("or"), Str("startWith"), Str("endWith"), Str("exact"),
   Str("regex")}

\* the callback of permissionValue.some at lines 50-52; reading a property
\* of null throws a TypeError
hasInvalidItem(item) ==
  IF TypeOf(item) = "string" THEN "false"
  ELSE IF TypeOf(item) # "object" THEN "true"
  ELSE IF item.t = "null" THEN "throw"
  ELSE Bool(~Truthy(PropPermissions(item)) \/ ~Truthy(PropMode(item)))

\* validateObject without the validModes test of lines 75-90
validateObjectAnyMode(permissionValue) ==
  IF ~Truthy(PropPermissions(permissionValue))
       \/ ~Truthy(PropMode(permissionValue)) THEN "false"
  ELSE IF ~IsArray(PropPermissions(permissionValue)) THEN "false"
  ELSE "true"

\* lines 64-93: the checks on a top-level object
validateObject(permissionValue) ==
  IF ~Truthy(PropPermissions(permissionValue))
       \/ ~Truthy(PropMode(permissionValue)) THEN "false"
  ELSE IF ~IsArray(PropPermissions(permissionValue)) THEN "false"
  ELSE IF PropMode(permissionValue) \notin validModes THEN "false"
  ELSE "true"

validatePermissionFormat(permissionValue) ==
  IF permissionValue.t \in {"null", "undefined"} THEN "false"
  ELSE IF TypeOf(permissionValue) = "string" THEN "true"
  ELSE IF IsArray(permissionValue) THEN
    LET hasInvalidItems ==
          Some([i \in 1..Len(permissionValue.v) |->
                  hasInvalidItem(permissionValue.v[i])])
    IN  CASE hasInvalidItems = "throw" -> "throw"
          [] hasInvalidItems = "true" -> "false"
          [] OTHER -> "true"
  ELSE IF TypeOf(permissionValue) = "object" THEN
    validateObject(permissionValue)
  ELSE "false"

(* --------------------- the membership checks (104-178) ----------------- *)
\* permissions is the source read at line 21, refVal the ref's value now
getCurrentPermissions(permissions, refVal) ==
  IF Truthy(permissions) /\ TypeOf(permissions) = "object"
       /\ permissions.t = "ref"
  THEN refVal
  ELSE permissions

\* checkPermission with the Array.isArray test turned around
checkPermissionUnlessArray(permission, currentPermissions) ==
  ~IsArray(currentPermissions) \/ Includes(currentPermissions.v, permission)

checkPermission(permission, currentPermissions) ==
  IsArray(currentPermissions) /\ Includes(currentPermissions.v, permission)

\* userPerm.startsWith / endsWith is not a function on a non-string entry
checkStartsWith(permissionsToCheck, currentPermissions) ==
  IF ~IsArray(currentPermissions) THEN "false"
  ELSE Some([i \in 1..Len(permissionsToCheck) |->
         Some([j \in 1..Len(currentPermissions.v) |->
           IF currentPermissions.v[j].t # "string" THEN "throw"
           ELSE Bool(StartsWith(currentPermissions.v[j].v,
                                permissionsToCheck[i].v))])])

checkEndsWith(permissionsToCheck, currentPermissions) ==
  IF ~IsArray(currentPermissions) THEN "false"
  ELSE Some([i \in 1..Len(permissionsToCheck) |->
         Some([j \in 1..Len(currentPermissions.v) |->
           IF currentPermissions.v[j].t # "string" THEN "throw"
           ELSE Bool(EndsWith(currentPermissions.v[j].v,
                              permissionsToCheck[i].v))])])

checkExactMatch(permissionsToCheck, currentPermissions) ==
  IF ~IsArray(currentPermissions) THEN "false"
  ELSE Bool(\E i \in 1..Len(permissionsToCheck) :
              Includes(currentPermissions.v, permissionsToCheck[i]))

\* a pattern that does not compile is caught per pattern and counts false;
\* regex.test converts its argument to a string
checkRegexMatch(permissionsToCheck, currentPermissions) ==
  IF ~IsArray(currentPermissions) THEN "false"
  ELSE Bool(\E i \in 1..Len(permissionsToCheck) :
              /\ ~RegExpThrows(permissionsToCheck[i].v)
              /\ \E j \in 1..Len(currentPermissions.v) :
                   RegExpTest(permissionsToCheck[i].v,
                              JSString(currentPermissions.v[j])))

(* ----------------------- evaluatePermission (180-251) ------------------ *)
\* results.every(Boolean) / results.some(Boolean) over Promise.all of
\* permsToCheck.map(checkPermission)
\* every taken for some
everyResultAsSome(results) == \E i \in 1..Len(results) : results[i]

everyResult(results) == \A i \in 1..Len(results) : results[i]
someResult(results) == \E i \in 1..Len(results) : results[i]

\* evaluateObject whose switch falls back to the or case on an unknown mode
evaluateObjectDefaultOr(permsToCheck, mode, currentPermissions) ==
  IF ~IsArray(permsToCheck) THEN "false"
  ELSE IF \E i \in 1..Len(permsToCheck.v) : permsToCheck.v[i].t # "string"
  THEN "false"
  ELSE LET results == [i \in 1..Len(permsToCheck.v) |->
                         checkPermission(permsToCheck.v[i], currentPermissions)]
       IN CASE mode = Str("startWith") ->
                 checkStartsWith(permsToCheck.v, currentPermissions)
            [] mode = Str("endWith") ->
                 checkEndsWith(permsToCheck.v, currentPermissions)
            [] mode = Str("exact") ->
                 checkExactMatch(permsToCheck.v, currentPermissions)
            [] mode = Str("regex") ->
                 checkRegexMatch(permsToCheck.v, currentPermissions)
            [] mode = Str("and") -> Bool(everyResult(results))
            [] OTHER -> Bool(someResult(results))

\* lines 190-224, entered with permissions and mode truthy
evaluateObject(permsToCheck, mode, currentPermissions) ==
  IF ~IsArray(permsToCheck) THEN "false"
  ELSE IF \E i \in 1..Len(permsToCheck.v) : permsToCheck.v[i].t # "string"
  THEN "false"
  ELSE LET results == [i \in 1..Len(permsToCheck.v) |->
                         checkPermission(permsToCheck.v[i], currentPermissions)]
       IN CASE mode = Str("startWith") ->
                 checkStartsWith(permsToCheck.v, currentPermissions)
            [] mode = Str("endWith") ->
                 checkEndsWith(permsToCheck.v, currentPermissions)
            [] mode = Str("exact") ->
                 checkExactMatch(permsToCheck.v, currentPermissions)
            [] mode = Str("regex") ->
                 checkRegexMatch(permsToCheck.v, currentPermissions)
            [] mode = Str("and") -> Bool(everyResult(results))
            [] mode = Str("or") -> Bool(someResult(results))
            [] OTHER -> "false"

\* the item results combined with every instead of some
combineItemsEvery(results) ==
  IF \E i \in 1..Len(results) : results[i] = "throw" THEN "throw"
  ELSE Bool(\A i \in 1..Len(results) : results[i] = "true")

\* Promise.all over the item promises: every item callback runs; one
\* rejection rejects the whole, else results.some(Boolean)
combineItems(results) ==
  IF \E i \in 1..Len(results) : results[i] = "throw" THEN "throw"
  ELSE Bool(\E i \in 1..Len(results) : results[i] = "true")

RECURSIVE evaluatePermission(_, _)
evaluatePermission(permissionValue, currentPermissions) ==
  IF permissionValue.t = "null" THEN "throw"
  ELSE IF TypeOf(permissionValue) = "object" /\ ~IsArray(permissionValue)
            /\ Truthy(PropPermissions(permissionValue))
            /\ Truthy(PropMode(permissionValue))
  THEN evaluateObject(PropPermissions(permissionValue),
                      PropMode(permissionValue), currentPermissions)
  ELSE IF IsArray(permissionValue) THEN
    combineItems([i \in 1..Len(permissionValue.v) |->
      LET item == permissionValue.v[i]
      IN  IF TypeOf(item) = "string"
          THEN Bool(checkPermission(item, currentPermissions))
          ELSE IF TypeOf(item) = "object" /\ item.t = "null" THEN "throw"
          ELSE IF TypeOf(item) = "object" /\ Truthy(PropPermissions(item))
                    /\ Truthy(PropMode(item))
          THEN evaluatePermission(item, currentPermissions)
          ELSE "false"])
  ELSE IF TypeOf(permissionValue) = "string"
  THEN Bool(checkPermission(permissionValue, currentPermissions))
  ELSE "false"

(* ------------------- the awaits of evaluatePermission ------------------ *)
\* the awaits a call of evaluatePermission passes through, innermost first,
\* before its promise settles: every read of the held permissions is made
\* by the synchronous part of the call, ahead of the first of them
awaitsOfObject(permsToCheck, mode) ==
  IF ~IsArray(permsToCheck) THEN 0
  ELSE IF \E i \in 1..Len(permsToCheck.v) : permsToCheck.v[i].t # "string"
  THEN 0
  ELSE IF mode \in {Str("startWith"), Str("endWith"), Str("exact"),
                    Str("regex")} THEN 1
  ELSE IF mode \in {Str("and"), Str("or")} THEN 2
  ELSE 0

awaitsOfItem(item) ==
  IF TypeOf(item) = "string" THEN 1
  ELSE IF item.t = "object" /\ Truthy(item.permissions) /\ Truthy(item.mode)
  THEN 1 + awaitsOfObject(item.permissions, item.mode)
  ELSE 0

MaxOf(S) == IF S = {} THEN 0 ELSE CHOOSE n \in S : \A k \in S : k <= n

awaitsOf(permissionValue) ==
  IF permissionValue.t = "object" /\ Truthy(permissionValue.permissions)
       /\ Truthy(permissionValue.mode)
  THEN awaitsOfObject(permissionValue.permissions, permissionValue.mode)
  ELSE IF IsArray(permissionValue)
  THEN 1 + MaxOf({awaitsOfItem(permissionValue.v[i]) :
                    i \in 1..Len(permissionValue.v)})
  ELSE IF TypeOf(permissionValue) = "string" THEN 1
  ELSE 0

(* ------------------------------- inputs -------------------------------- *)
SeqsUpTo(S, n) == UNION {[1..k -> S] : k \in 0..n}

Wildcard == Str("*")
PermStrings == {Str("a"), Str("b"), Str("ab")}

\* what the host hands to configure: held arrays (an entry that is not a
\* string included), the ref, or nothing
HeldArrays == {Arr(h) : h \in SeqsUpTo(PermStrings \cup {Num(1)}, MaxHeld)}
RefValues == HeldArrays \cup {Null}

\* the bound values of v-permission
Modes == validModes \cup {Str("bogus"), Str(""), Undefined}
PermArrays == {Arr(q) : q \in SeqsUpTo(PermStrings \cup {Num(1)}, MaxPerms)}
TopObjects ==
  {Obj(q, m) : q \in PermArrays \cup {Undefined, Str("a")}, m \in Modes}
ItemObjects ==
  {Obj(q, m) :
     q \in {Arr(<< >>), Arr(<<Str("a"), Str("b")>>),
            Arr(<<Str("b"), Str("ab")>>), Arr(<<Str("a"), Num(1)>>),
            Str("a")},
     m \in {Str("and"), Str("or"), Str("bogus")}}
ListItems ==
  {Str("a"), Str("b"), Null, Num(1), Arr(<<Str("a")>>)} \cup ItemObjects
Lists == {Arr(l) : l \in SeqsUpTo(ListItems, MaxList)}
Scalars == {Null, Undefined, Num(1), Wildcard, Str("")} \cup PermStrings
Requirements == Scalars \cup TopObjects \cup Lists

\* the smaller input sets of the specification with host operations
HostArrays ==
  {Arr(<< >>), Arr(<<Str("a")>>), Arr(<<Str("b")>>),
   Arr(<<Str("a"), Str("b")>>)}
HostRefValues == HostArrays \cup {Null}
HostSources == HostArrays \cup {Ref, Null}
HostBindings ==
  {Wildcard, Str("a"), Str("b"), Null, Arr(<<Str("a"), Str("b")>>),
   Arr(<<Null>>), Obj(Arr(<<Str("a"), Str("b")>>), Str("and")),
   Obj(Arr(<< >>), Str("and"))}

(* -------------------------------- state -------------------------------- *)
VARIABLES
  globalConfig,    \* globalConfig.permissions
  refValue,        \* .value of the host's ref
  el,              \* number of the element the hook is about
  binding,         \* binding.value of that element
  parentNode,      \* the element has a parent (is attached)
  pc,              \* where the element's mounted hook stands
  hasPermission,   \* outcome of evaluatePermission(value), awaited at 254
  validated,       \* validatePermissionFormat has been called for el
  evaluated,       \* evaluatePermission has been called for el
  lastConfigured,  \* argument of the latest configure call
  refAtConfigure,  \* the ref's value when configure was last called
  sourceAtMount,   \* the latest configured source when the hook was invoked
  heldAtMount,     \* what that source held at that moment
  awaits,          \* awaits inside evaluatePermission still to be passed
  mutatedInFlight  \* the host configured or wrote the ref during an await

vars == <<globalConfig, refValue, el, binding, parentNode, pc, hasPermission,
          validated, evaluated, lastConfigured, refAtConfigure, sourceAtMount,
          heldAtMount, awaits, mutatedInFlight>>

hookVars == <<el, binding, parentNode, pc, hasPermission, validated,
              evaluated, sourceAtMount, heldAtMount, awaits>>

configVars == <<globalConfig, lastConfigured, refAtConfigure>>

\* the value a source stands for: the ref is read through
SourceValue(source, refVal) == IF source = Ref THEN refVal ELSE source

(* ------------------------------- actions ------------------------------- *)
\* configure that keeps a source already stored
configureKeepFirst(permissions) ==
  /\ globalConfig' = IF globalConfig = Null THEN permissions ELSE globalConfig
  /\ lastConfigured' = permissions
  /\ refAtConfigure' = refValue
  /\ mutatedInFlight' = (mutatedInFlight \/ pc = "awaiting")
  /\ UNCHANGED <<refValue, hookVars>>

\* lines 11-15
configurePermissionDirective(permissions) ==
  /\ globalConfig' = permissions
  /\ lastConfigured' = permissions
  /\ refAtConfigure' = refValue
  /\ mutatedInFlight' = (mutatedInFlight \/ pc = "awaiting")
  /\ UNCHANGED <<refValue, hookVars>>

\* the host writes the ref: userPermissions.value = ..., .value.push(...)
SetRefValue(v) ==
  /\ v # refValue
  /\ refValue' = v
  /\ mutatedInFlight' = (mutatedInFlight \/ pc = "awaiting")
  /\ UNCHANGED <<configVars, hookVars>>

\* Vue creates an element carrying v-permission="value" and inserts it
Render(value) ==
  /\ pc \in {"none", "done", "rejected"}
  /\ el < MaxElements
  /\ el' = el + 1
  /\ binding' = value
  /\ parentNode' = TRUE
  /\ pc' = "created"
  /\ hasPermission' = "false"
  /\ validated' = FALSE
  /\ evaluated' = FALSE
  /\ sourceAtMount' = Null
  /\ heldAtMount' = Null
  /\ awaits' = 0
  /\ mutatedInFlight' = FALSE
  /\ UNCHANGED <<configVars, refValue>>

\* the hook without the early return of line 35
isWildcardNever(value) == FALSE

isWildcard(value) == value = Wildcard

\* lines 18-254: the hook up to its await; everything it reads, it reads here
mounted ==
  /\ pc = "created"
  /\ sourceAtMount' = lastConfigured
  /\ heldAtMount' = SourceValue(lastConfigured, refValue)
  /\ LET value == binding
         permissions == globalConfig
         format == validatePermissionFormat(value)
     IN  IF ~Truthy(permissions) \/ isWildcard(value) THEN
           /\ pc' = "done"
           /\ UNCHANGED <<parentNode, hasPermission, validated, evaluated,
                          awaits>>
         ELSE IF format = "throw" THEN
           /\ pc' = "rejected"
           /\ validated' = TRUE
           /\ UNCHANGED <<parentNode, hasPermission, evaluated, awaits>>
         ELSE IF format = "false" THEN
           /\ pc' = "done"
           /\ validated' = TRUE
           /\ parentNode' = FALSE
           /\ UNCHANGED <<hasPermission, evaluated, awaits>>
         ELSE
           /\ pc' = "awaiting"
           /\ validated' = TRUE
           /\ evaluated' = TRUE
           /\ hasPermission' =
                evaluatePermission(value,
                  getCurrentPermissions(permissions, refValue))
           /\ awaits' = awaitsOf(value)
           /\ UNCHANGED parentNode
  /\ UNCHANGED <<configVars, refValue, el, binding, mutatedInFlight>>

\* lines 208-247: one await inside evaluatePermission is passed; its
\* continuation combines results and reads nothing
settle ==
  /\ pc = "awaiting"
  /\ awaits > 0
  /\ awaits' = awaits - 1
  /\ UNCHANGED <<configVars, refValue, el, binding, parentNode, pc,
                 hasPermission, validated, evaluated, sourceAtMount,
                 heldAtMount, mutatedInFlight>>

\* a hook that evaluates again, against what is configured when it resumes
resumeRereads ==
  /\ pc = "awaiting"
  /\ awaits = 0
  /\ pc' = "done"
  /\ parentNode' =
       IF evaluatePermission(binding,
            getCurrentPermissions(globalConfig, refValue)) = "true"
       THEN parentNode ELSE FALSE
  /\ UNCHANGED <<configVars, refValue, el, binding, hasPermission,
                 validated, evaluated, sourceAtMount, heldAtMount, awaits,
                 mutatedInFlight>>

\* lines 254-260: the hook resumes with the outcome, fulfilled or rejected
resume ==
  /\ pc = "awaiting"
  /\ awaits = 0
  /\ pc' = "done"
  /\ parentNode' = IF hasPermission = "true" THEN parentNode ELSE FALSE
  /\ UNCHANGED <<configVars, refValue, el, binding, hasPermission,
                 validated, evaluated, sourceAtMount, heldAtMount, awaits,
                 mutatedInFlight>>

(* ---------------------------- specifications --------------------------- *)
\* the module as loaded (line 9), the host's ref empty, nothing rendered
Init ==
  /\ globalConfig = Null
  /\ lastConfigured = Null
  /\ refValue = Arr(<< >>)
  /\ el = 0
  /\ binding = Undefined
  /\ parentNode = FALSE
  /\ pc = "none"
  /\ hasPermission = "false"
  /\ validated = FALSE
  /\ evaluated = FALSE
  /\ refAtConfigure = Arr(<< >>)
  /\ sourceAtMount = Null
  /\ heldAtMount = Null
  /\ awaits = 0
  /\ mutatedInFlight = FALSE

Next ==
  \/ \E source \in HostSources : configurePermissionDirective(source)
  \/ \E v \in HostRefValues : SetRefValue(v)
  \/ \E value \in HostBindings : Render(value)
  \/ mounted
  \/ settle
  \/ resume

Spec == Init /\ [][Next]_vars

\* Vue invokes the hook of an inserted element and the microtask queue
\* resumes it; the host goes on writing its ref
FairSpec ==
  /\ Spec
  /\ WF_vars(mounted)
  /\ WF_vars(settle)
  /\ WF_vars(resume)
  /\ WF_vars(\E v \in HostRefValues : SetRefValue(v))

\* one element rendered under a configured source, any requirement
EvalInit ==
  /\ \/ globalConfig \in HeldArrays /\ refValue = Arr(<< >>)
     \/ globalConfig = Ref /\ refValue \in RefValues
  /\ lastConfigured = globalConfig
  /\ refAtConfigure = refValue
  /\ sourceAtMount = Null
  /\ el = 1
  /\ binding \in Requirements
  /\ parentNode = TRUE
  /\ pc = "created"
  /\ hasPermission = "false"
  /\ validated = FALSE
  /\ evaluated = FALSE
  /\ heldAtMount = Null
  /\ awaits = 0
  /\ mutatedInFlight = FALSE

EvalNext == mounted \/ settle \/ resume

EvalSpec == EvalInit /\ [][EvalNext]_vars

(* ------------------------ what the claims speak of --------------------- *)
\* the six mode literals of PermissionMode
ModeLiterals ==
  {Str("and"), Str("or"), Str("startWith"), Str("endWith"), Str("exact"),
   Str("regex")}

\* the held permissions as a set; nothing is held by what is not an array
HeldSet(held) ==
  IF IsArray(held) THEN {held.v[i] : i \in 1..Len(held.v)} ELSE {}

Finished == pc = "done"
Attached == parentNode
Detached == ~parentNode

(* ------------------------------- claims -------------------------------- *)

\* C1: with no permission source configured (configure never called, or
\* called with null) a hook that ran on a requirement other than "*" leaves
\* its element detached.
C1_UnconfiguredFailsClosed ==
  (Finished /\ sourceAtMount = Null /\ binding # Wildcard) => Detached

\* C2: with a source configured, for a requirement of any shape the hook
\* never ends in a rejected promise, and its element stays attached only if
\* the requirement is the wildcard or was evaluated as satisfied.
C2_HookNeverThrowsAndFailsClosed ==
  sourceAtMount # Null =>
    /\ pc # "rejected"
    /\ (Finished /\ Attached) =>
         (binding = Wildcard \/ (evaluated /\ hasPermission = "true"))

\* C3: an element guarded by p that was mounted while the configured ref did
\* not hold p, and so was detached, is attached again at some point after
\* the ref has come to hold p (read in the claim's favour: unless the ref is
\* replaced as the source or loses p again before that).
C3_ReattachedAfterGrant ==
  \A i \in 1..MaxElements : \A p \in {Str("a"), Str("b")} :
    (/\ el = i /\ Finished /\ Detached /\ binding = p
     /\ sourceAtMount = Ref /\ p \notin HeldSet(heldAtMount)
     /\ globalConfig = Ref /\ p \in HeldSet(refValue))
      ~> \/ el = i /\ Attached
         \/ ~(globalConfig = Ref /\ p \in HeldSet(refValue))

C5_WildcardAlwaysAttached ==
  (binding = Wildcard /\ pc # "none") =>
    (Attached /\ ~validated /\ ~evaluated /\ pc \in {"created", "done"})

C5_Witness ==
  /\ binding = Wildcard /\ Finished /\ Attached
  /\ sourceAtMount = Arr(<< >>)

\* a Group whose permissions are strings and whose mode is a literal
WellFormedGroup(g) ==
  /\ g.t = "object"
  /\ IsArray(g.permissions)
  /\ \A i \in 1..Len(g.permissions.v) : g.permissions.v[i].t = "string"
  /\ g.mode \in ModeLiterals

PermSet(g) == {g.permissions.v[i] : i \in 1..Len(g.permissions.v)}

\* the exact-membership modes, read off the MatchMode table
GroupHolds(g, H) ==
  IF g.mode = Str("and") THEN PermSet(g) \subseteq H
  ELSE PermSet(g) \cap H # {}

ExactGroup(g) ==
  WellFormedGroup(g) /\ g.mode \in {Str("and"), Str("or"), Str("exact")}

ItemHolds(item, H) ==
  IF item.t = "string" THEN item \in H ELSE GroupHolds(item, H)

\* an object item that passes the shallow check of a List but is no Group
Malformed(item) ==
  /\ item.t = "object"
  /\ Truthy(item.permissions) /\ Truthy(item.mode)
  /\ ~WellFormedGroup(item)

ListOf(l, P(_)) == l.t = "array" /\ \A i \in 1..Len(l.v) : P(l.v[i])

IsStringOrExactGroup(item) == item.t = "string" \/ ExactGroup(item)
IsStringOrGroupOrMalformed(item) ==
  item.t = "string" \/ ExactGroup(item) \/ Malformed(item)

\* C6: under a held array, Single(p) is satisfied iff p is a member of it,
\* and a List of strings and Groups is satisfied iff one of its items is: a
\* string that is held or a Group that holds ([x, {[y, z], and}] iff x is
\* held or y and z both are; the empty List never).
C6_SingleAndListSemantics ==
  (Finished /\ sourceAtMount # Null /\ IsArray(heldAtMount)) =>
    /\ (binding.t = "string" /\ binding # Wildcard) =>
         (Attached <=> binding \in HeldSet(heldAtMount))
    /\ ListOf(binding, IsStringOrExactGroup) =>
         (Attached <=>
            \E i \in 1..Len(binding.v) :
               ItemHolds(binding.v[i], HeldSet(heldAtMount)))
    /\ binding = Arr(<<Str("a"),
                       Obj(Arr(<<Str("b"), Str("ab")>>), Str("and"))>>) =>
         (Attached <=>
            \/ Str("a") \in HeldSet(heldAtMount)
            \/ (/\ Str("b") \in HeldSet(heldAtMount)
                /\ Str("ab") \in HeldSet(heldAtMount)))

C6_Witness ==
  /\ binding = Arr(<<Str("a"), Obj(Arr(<<Str("b"), Str("ab")>>), Str("and"))>>)
  /\ Finished /\ Attached
  /\ IsArray(heldAtMount) /\ Str("a") \notin HeldSet(heldAtMount)

\* C7: under a held array, Group(perms, and) over strings is satisfied iff
\* every element of perms is held; Group(perms, or) and Group(perms, exact)
\* are satisfied iff at least one is, and evaluate alike.
C7_AndOrExactSemantics ==
  (Finished /\ sourceAtMount # Null /\ IsArray(heldAtMount)
     /\ ExactGroup(binding)) =>
    /\ binding.mode = Str("and") =>
         (Attached <=> \A p \in PermSet(binding) : p \in HeldSet(heldAtMount))
    /\ binding.mode \in {Str("or"), Str("exact")} =>
         /\ Attached <=> \E p \in PermSet(binding) : p \in HeldSet(heldAtMount)
         /\ Attached <=>
              evaluatePermission(Obj(binding.permissions, Str("or")),
                                 heldAtMount) = "true"
         /\ Attached <=>
              evaluatePermission(Obj(binding.permissions, Str("exact")),
                                 heldAtMount) = "true"

C7_Witness ==
  /\ binding = Obj(Arr(<<Str("a"), Str("b")>>), Str("and"))
  /\ Finished /\ Attached
  /\ heldAtMount = Arr(<<Str("b"), Str("a")>>)

\* the requirements whose meaning against a held set is exact membership
Satisfied(requirement, H) ==
  IF requirement.t = "string" THEN requirement \in H
  ELSE IF requirement.t = "array"
  THEN \E i \in 1..Len(requirement.v) : ItemHolds(requirement.v[i], H)
  ELSE GroupHolds(requirement, H)

\* C8: whatever configure calls came before, a hook decides against the
\* source of the latest call alone, and when that source is the ref against
\* the value the ref has when the hook runs; after a latest call that gave
\* no source it consults no earlier one.
C8_LatestSourceCurrentValue ==
  /\ (/\ Finished /\ sourceAtMount # Null /\ binding # Wildcard
      /\ \/ binding.t = "string"
         \/ ListOf(binding, IsStringOrExactGroup)
         \/ ExactGroup(binding)) =>
       (Attached <=> Satisfied(binding, HeldSet(heldAtMount)))
  /\ (sourceAtMount = Null /\ pc # "created") => (~validated /\ ~evaluated)

C8_Witness ==
  /\ Finished /\ Attached /\ binding = Str("a")
  /\ sourceAtMount = Ref /\ heldAtMount # refAtConfigure
  /\ Str("a") \notin HeldSet(refAtConfigure)

\* C9 as stated: when the held snapshot is not an array, every requirement
\* other than "*" that passes validation is evaluated false without a throw
\* and its element is detached.
C9_NonArrayHeldDenies ==
  (sourceAtMount # Null /\ ~IsArray(heldAtMount) /\ evaluated) =>
    /\ hasPermission = "false"
    /\ Finished => Detached

\* an and-Group over no permissions, alone or as an item of a List
HasEmptyAnd(requirement) ==
  \/ requirement = Obj(Arr(<< >>), Str("and"))
  \/ /\ requirement.t = "array"
     /\ \E i \in 1..Len(requirement.v) :
          requirement.v[i] = Obj(Arr(<< >>), Str("and"))

\* C9 amended: when the held snapshot is not an array, every requirement
\* other than "*" that passes validation is evaluated without a throw, false
\* and its element detached, unless it is or contains as a List item an
\* and-Group with the empty permissions array: that one is evaluated true
\* and the element stays attached.
C9_NonArrayHeldDeniesButEmptyAnd ==
  (sourceAtMount # Null /\ ~IsArray(heldAtMount) /\ evaluated) =>
    /\ hasPermission = Bool(HasEmptyAnd(binding))
    /\ Finished => (Attached <=> HasEmptyAnd(binding))

C9_Witness ==
  /\ sourceAtMount = Ref /\ heldAtMount = Null
  /\ binding = Obj(Arr(<<Str("a"), Str("b")>>), Str("or"))
  /\ evaluated /\ Finished /\ Detached

\* C10: a List with an object item whose permissions and mode are truthy is
\* Valid even if that item's mode is no literal, its permissions no array or
\* not all strings; the item counts as false and the List is satisfied iff
\* one of its other items is. The same object at top level with an unknown
\* mode or permissions that are no array is Invalid.
C10_TwoTierStrictness ==
  (sourceAtMount # Null /\ pc # "created") =>
    /\ (/\ ListOf(binding, IsStringOrGroupOrMalformed)
        /\ \E i \in 1..Len(binding.v) : Malformed(binding.v[i])) =>
         /\ evaluated
         /\ hasPermission # "throw"
         /\ Finished =>
              (Attached <=>
                 \E i \in 1..Len(binding.v) :
                    /\ ~Malformed(binding.v[i])
                    /\ ItemHolds(binding.v[i], HeldSet(heldAtMount)))
    /\ (/\ Malformed(binding)
        /\ (binding.mode \notin ModeLiterals \/ ~IsArray(binding.permissions)))
         => (validated /\ ~evaluated /\ Detached)

C10_Witness ==
  /\ binding = Arr(<<Obj(Arr(<<Str("a"), Str("b")>>), Str("bogus")),
                     Str("b")>>)
  /\ Finished /\ Attached /\ evaluated
  /\ Str("a") \in HeldSet(heldAtMount)

\* C11: whatever the host configures or writes to the ref while the hook is
\* suspended at one of its awaits, the outcome the hook holds, and the
\* attach/detach decision it ends with, is the requirement evaluated against
\* the one held set that was current when the hook was invoked; membership
\* results from two held sets are never mixed.
C11_SnapshotConsistency ==
  (/\ pc \in {"awaiting", "done"} /\ evaluated
   /\ \/ binding.t = "string"
      \/ ListOf(binding, IsStringOrExactGroup)
      \/ ExactGroup(binding)) =>
    /\ hasPermission = Bool(Satisfied(binding, HeldSet(heldAtMount)))
    /\ Finished => (Detached <=> ~Satisfied(binding, HeldSet(heldAtMount)))

C11_Witness ==
  /\ Finished /\ Attached /\ mutatedInFlight
  /\ binding = Obj(Arr(<<Str("a"), Str("b")>>), Str("and"))
  /\ sourceAtMount = Ref
  /\ ~Satisfied(binding, HeldSet(SourceValue(globalConfig, refValue)))

=============================================================================
